---- MODULE Spec2Model ----
(***************************************************************************)
(* A model of get-links.py: the extraction of image links from chatterino  *)
(* chat logs (get_logfile_info, parse_line, get_links, get_all_links,      *)
(* filter_and_format_links), the two writers (save_links_db,               *)
(* save_links_json) and main's confirmation prompt.                        *)
(*                                                                         *)
(* Text is modelled character by character on TLA+ strings.  TLA+ strings  *)
(* hold ASCII only, so the character "$" stands for one non-ASCII letter   *)
(* (a CJK character of a display name): str.isascii() is false on it and   *)
(* the regular expression class \w holds it.                               *)
(***************************************************************************)
EXTENDS Integers, Sequences, FiniteSets, TLC

(***************************************************************************)
(* Python string primitives.                                               *)
(***************************************************************************)

\* s[lo:hi] with Python's clamping; lo and hi are 0-based, hi exclusive.
Slice(s, lo, hi) ==
    LET h == IF hi > Len(s) THEN Len(s) ELSE hi
    IN  IF lo >= h THEN "" ELSE SubSeq(s, lo + 1, h)

\* s[lo:]
SliceFrom(s, lo) == Slice(s, lo, Len(s))

\* s[i:i+1]: the character at the 0-based index i, "" past the end
CharAt(s, i) == Slice(s, i, i + 1)

\* s.startswith(p, i)
StartsWithAt(s, p, i) == Slice(s, i, i + Len(p)) = p

\* s.find(sep): the 0-based index of the first occurrence, -1 when there is none
FindStr(s, sep) ==
    LET hits == {i \in 0..Len(s) : StartsWithAt(s, sep, i)}
    IN  IF hits = {} THEN -1 ELSE CHOOSE i \in hits : \A j \in hits : i <= j

\* s.rfind(sep)
RFindStr(s, sep) ==
    LET hits == {i \in 0..Len(s) : StartsWithAt(s, sep, i)}
    IN  IF hits = {} THEN -1 ELSE CHOOSE i \in hits : \A j \in hits : i >= j

\* s.partition(sep): <<before, sep, after>>, or <<s, "", "">> without sep
Partition(s, sep) ==
    LET i == FindStr(s, sep)
    IN  IF i < 0 THEN <<s, "", "">>
        ELSE <<Slice(s, 0, i), sep, SliceFrom(s, i + Len(sep))>>

\* s.count(c) for a single character c
CountChar(s, c) == Cardinality({i \in 0..(Len(s) - 1) : CharAt(s, i) = c})

\* s.replace(c, "") for a single character c
RECURSIVE RemoveChar(_, _)
RemoveChar(s, c) ==
    IF s = "" THEN ""
    ELSE (IF CharAt(s, 0) = c THEN "" ELSE CharAt(s, 0))
         \o RemoveChar(SliceFrom(s, 1), c)

\* s.lower() on the letters the model uses
LowerChar(c) ==
    CASE c = "C" -> "c" [] c = "S" -> "s" [] c = "Q" -> "q"
      [] c = "L" -> "l" [] c = "J" -> "j" [] c = "O" -> "o"
      [] c = "N" -> "n" [] c = "Y" -> "y" [] c = "E" -> "e"
      [] OTHER -> c

RECURSIVE Lower(_)
Lower(s) ==
    IF s = "" THEN "" ELSE LowerChar(CharAt(s, 0)) \o Lower(SliceFrom(s, 1))

DigitChars == {"0", "1", "2", "3", "4", "5", "6", "7", "8", "9"}

LetterChars ==
    {"a", "b", "c", "d", "e", "f", "g", "h", "i", "j", "k", "l", "m",
     "n", "o", "p", "q", "r", "s", "t", "u", "v", "w", "x", "y", "z",
     "C", "S", "Q", "L", "J", "O", "N", "Y", "E"}

\* the stand-in for a non-ASCII letter
NonAsciiChars == {"$"}

\* str.isascii()
IsAscii(s) == \A i \in 0..(Len(s) - 1) : CharAt(s, i) \notin NonAsciiChars

\* the regular expression class \w (str patterns: Unicode word characters)
IsWordChar(c) == c \in DigitChars \cup LetterChars \cup NonAsciiChars \cup {"_"}

\* the regular expression class \s, as int() strips it
IsSpaceChar(c) == c \in {" ", "\n", "\r", "\t"}

DigitValue(c) ==
    CASE c = "0" -> 0 [] c = "1" -> 1 [] c = "2" -> 2 [] c = "3" -> 3
      [] c = "4" -> 4 [] c = "5" -> 5 [] c = "6" -> 6 [] c = "7" -> 7
      [] c = "8" -> 8 [] c = "9" -> 9

AllDigits(s) == s # "" /\ \A i \in 0..(Len(s) - 1) : CharAt(s, i) \in DigitChars

RECURSIVE DecimalValue(_)
DecimalValue(s) ==
    IF s = "" THEN 0
    ELSE 10 * DecimalValue(Slice(s, 0, Len(s) - 1)) + DigitValue(CharAt(s, Len(s) - 1))

\* s.strip()
RECURSIVE Strip(_)
Strip(s) ==
    IF s = "" THEN ""
    ELSE IF IsSpaceChar(CharAt(s, 0)) THEN Strip(SliceFrom(s, 1))
    ELSE IF IsSpaceChar(CharAt(s, Len(s) - 1)) THEN Strip(Slice(s, 0, Len(s) - 1))
    ELSE s

\* int(s): [ok |-> TRUE, val |-> n], or [ok |-> FALSE] where int raises ValueError.
\* int accepts surrounding whitespace and one sign before the digits.
ParseInt(s) ==
    LET t == Strip(s)
        signed == t # "" /\ CharAt(t, 0) \in {"+", "-"}
        d == IF signed THEN SliceFrom(t, 1) ELSE t
    IN  IF AllDigits(d)
        THEN [ok |-> TRUE,
              val |-> IF signed /\ CharAt(t, 0) = "-" THEN 0 - DecimalValue(d)
                      ELSE DecimalValue(d)]
        ELSE [ok |-> FALSE, val |-> 0]

\* f"{n:0{w}d}" for n >= 0
RECURSIVE DigitsOf(_)
DigitsOf(n) ==
    LET d == CHOOSE c \in DigitChars : DigitValue(c) = n % 10
    IN  IF n < 10 THEN d ELSE DigitsOf(n \div 10) \o d

RECURSIVE ZeroPad(_, _)
ZeroPad(s, w) == IF Len(s) >= w THEN s ELSE ZeroPad("0" \o s, w)

(***************************************************************************)
(* datetime.date and datetime.datetime.                                    *)
(***************************************************************************)

IsLeap(y) == (y % 4 = 0 /\ y % 100 # 0) \/ y % 400 = 0

DaysInMonth(y, m) ==
    IF m = 2 THEN (IF IsLeap(y) THEN 29 ELSE 28)
    ELSE IF m \in {4, 6, 9, 11} THEN 30 ELSE 31

\* datetime.date(y, m, d) raises ValueError unless this holds
ValidDate(y, m, d) ==
    /\ y \in 1..9999
    /\ m \in 1..12
    /\ d \in 1..DaysInMonth(y, m)

\* datetime.datetime(..., h, mi, s) raises ValueError unless this holds
ValidTime(h, mi, s) == h \in 0..23 /\ mi \in 0..59 /\ s \in 0..59

\* datetime.isoformat() of a datetime with no microseconds
IsoFormat(d) ==
    ZeroPad(DigitsOf(d.year), 4) \o "-" \o ZeroPad(DigitsOf(d.month), 2) \o "-"
    \o ZeroPad(DigitsOf(d.day), 2) \o "T" \o ZeroPad(DigitsOf(d.hour), 2) \o ":"
    \o ZeroPad(DigitsOf(d.minute), 2) \o ":" \o ZeroPad(DigitsOf(d.second), 2)

(***************************************************************************)
(* get_logfile_info                                                        *)
(***************************************************************************)

\* os.path.basename(path)
Basename(path) == SliceFrom(path, RFindStr(path, "/") + 1)

NoDate == [year |-> 0, month |-> 0, day |-> 0]

\* findDateRegex.match(basename): ^([^-]*)-((\d{4})-(\d{2})-(\d{2}))\.log$
\* Group 1 cannot hold a "-", so it ends at the first one; "$" also matches
\* before one trailing newline.
DateMatch(basename) ==
    LET i == FindStr(basename, "-")
        rest == SliceFrom(basename, i + 1)
        tail == SliceFrom(rest, 10)
    IN  IF /\ i >= 0
           /\ AllDigits(Slice(rest, 0, 4))
           /\ CharAt(rest, 4) = "-"
           /\ AllDigits(Slice(rest, 5, 7))
           /\ CharAt(rest, 7) = "-"
           /\ AllDigits(Slice(rest, 8, 10))
           /\ tail \in {".log", ".log\n"}
        THEN [ok |-> TRUE, g1 |-> Slice(basename, 0, i),
              g3 |-> Slice(rest, 0, 4), g4 |-> Slice(rest, 5, 7),
              g5 |-> Slice(rest, 8, 10)]
        ELSE [ok |-> FALSE, g1 |-> "", g3 |-> "", g4 |-> "", g5 |-> ""]

\* get_logfile_info(path): the channel and the date, or ValueError (from the
\* failed match, or from datetime.date on an impossible calendar date)
get_logfile_info(path) ==
    LET m == DateMatch(Basename(path))
        y == DecimalValue(m.g3)
        mo == DecimalValue(m.g4)
        d == DecimalValue(m.g5)
    IN  IF ~m.ok THEN [exc |-> "ValueError", channel |-> "", date |-> NoDate]
        ELSE IF ~ValidDate(y, mo, d)
        THEN [exc |-> "ValueError", channel |-> "", date |-> NoDate]
        ELSE [exc |-> "", channel |-> m.g1,
              date |-> [year |-> y, month |-> mo, day |-> d]]

(***************************************************************************)
(* parse_line                                                              *)
(***************************************************************************)

NoDateTime ==
    [year |-> 0, month |-> 0, day |-> 0, hour |-> 0, minute |-> 0, second |-> 0]

\* user.split(" ")[1]: the text between the first and the second space;
\* IndexError when user holds no space
SplitSecond(user) ==
    LET i == FindStr(user, " ")
    IN  IF i < 0 THEN [exc |-> "IndexError", val |-> ""]
        ELSE [exc |-> "", val |-> Partition(SliceFrom(user, i + 1), " ")[1]]

\* parse_line(line, asumeDate): user, message and date, or the exception raised.
\* The statements run in the source's order: the user split comes before the
\* time fields, so its IndexError wins over a ValueError of the same line.
parse_line(line, asumeDate) ==
    LET p == Partition(SliceFrom(line, 12), ": ")
        sp == SplitSecond(p[1])
        user == IF IsAscii(p[1]) THEN p[1] ELSE sp.val
        message == p[3]
        t == Partition(Slice(line, 1, 9), ":")
        u == Partition(t[3], ":")
        hour == ParseInt(t[1])
        mins == ParseInt(u[1])
        second == ParseInt(u[3])
        failed(e) == [exc |-> e, user |-> "", message |-> "", date |-> NoDateTime]
    IN  IF ~IsAscii(p[1]) /\ sp.exc # "" THEN failed(sp.exc)
        ELSE IF ~hour.ok \/ ~mins.ok \/ ~second.ok THEN failed("ValueError")
        ELSE IF ~ValidTime(hour.val, mins.val, second.val) THEN failed("ValueError")
        ELSE [exc |-> "", user |-> user, message |-> message,
              date |-> [year |-> asumeDate.year, month |-> asumeDate.month,
                        day |-> asumeDate.day, hour |-> hour.val,
                        minute |-> mins.val, second |-> second.val]]

(***************************************************************************)
(* linkRegex                                                               *)
(***************************************************************************)

\* class LinkType(enum.Enum): the members' values
LinkTypeValues == {"imgur.com", "gyazo.com", "nuuls.com"}

\* the end (exclusive) of the longest run of \w characters from i (of
\* [\w\-] characters when dash)
RECURSIVE RunEnd(_, _, _)
RunEnd(s, i, dash) ==
    IF i < Len(s) /\ (IsWordChar(CharAt(s, i)) \/ (dash /\ CharAt(s, i) = "-"))
    THEN RunEnd(s, i + 1, dash) ELSE i

\* One attempt of
\*   (https?://)?(i\.)?(imgur\.com|gyazo\.com|(?<=i\.)nuuls\.com)/([\w\-]*)(\.\w*)?
\* at position p.  Every optional group is greedy, and no host starts the way
\* a scheme or "i." does, so the attempt without a group that is present fails.
MatchAt(s, p) ==
    LET q == IF StartsWithAt(s, "https://", p) THEN p + 8
             ELSE IF StartsWithAt(s, "http://", p) THEN p + 7 ELSE p
        r == IF StartsWithAt(s, "i.", q) THEN q + 2 ELSE q
        host == IF StartsWithAt(s, "imgur.com", r) THEN "imgur.com"
                ELSE IF StartsWithAt(s, "gyazo.com", r) THEN "gyazo.com"
                ELSE IF StartsWithAt(s, "nuuls.com", r) /\ r >= 2
                        /\ Slice(s, r - 2, r) = "i." THEN "nuuls.com"
                ELSE ""
        sl == r + 9
        idEnd == RunEnd(s, sl + 1, TRUE)
        end == IF idEnd < Len(s) /\ CharAt(s, idEnd) = "."
               THEN RunEnd(s, idEnd + 1, FALSE) ELSE idEnd
    IN  IF host # "" /\ sl < Len(s) /\ CharAt(s, sl) = "/"
        THEN [ok |-> TRUE, end |-> end, g0 |-> Slice(s, p, end), g3 |-> host,
              g4 |-> Slice(s, sl + 1, idEnd)]
        ELSE [ok |-> FALSE, end |-> p, g0 |-> "", g3 |-> "", g4 |-> ""]

\* linkRegex.finditer(line) from position p: the matches, left to right,
\* none overlapping
RECURSIVE FindIter(_, _)
FindIter(s, p) ==
    IF p >= Len(s) THEN <<>>
    ELSE LET m == MatchAt(s, p)
         IN  IF m.ok THEN <<m>> \o FindIter(s, m.end) ELSE FindIter(s, p + 1)

(***************************************************************************)
(* class LinkData.  An object is its __dict__.  Python is dynamically      *)
(* typed, so an attribute that the code rebinds to a value of another      *)
(* class carries its class: type is a LinkType member or a str, date a     *)
(* datetime or a str, and raw_link is the class's method until an instance *)
(* attribute of that name shadows it.                                      *)
(***************************************************************************)

EnumMember(v) == [cls |-> "LinkType", v |-> v]

StrValue(v) == [cls |-> "str", v |-> v]

DateTimeObj(dt) == [cls |-> "datetime", dt |-> dt, s |-> ""]

DateStr(iso) == [cls |-> "str", dt |-> NoDateTime, s |-> iso]

BoundMethod == [cls |-> "method", s |-> ""]

\* LinkType(value): the enum lookup, ValueError on a value of no member
LinkType(value) ==
    IF value \in LinkTypeValues THEN [exc |-> "", val |-> EnumMember(value)]
    ELSE [exc |-> "ValueError", val |-> StrValue(value)]

\* LinkData.__init__: every argument here is a value (none is None), so the
\* only check left is isinstance(link_type, LinkType)
LinkData(link, link_type, specific_id, user, channel, message, date) ==
    IF link_type.cls # "LinkType" THEN [exc |-> "ValueError", obj |-> <<>>]
    ELSE [exc |-> "",
          obj |-> [link |-> link, user |-> user, date |-> date,
                   channel |-> channel, specific_id |-> specific_id,
                   message |-> message, type |-> link_type,
                   raw_link |-> BoundMethod]]

\* the per-type URL template of LinkData.raw_link
UrlTemplate(host, id) == "https://i." \o host \o "/" \o id \o ".png"

\* link.raw_link(): an instance attribute raw_link shadows the method, and a
\* str is not callable; the method compares self.type with the enum members,
\* which no str equals
raw_link(self) ==
    IF self.raw_link.cls # "method" THEN [exc |-> "TypeError", val |-> ""]
    ELSE IF self.type.cls = "LinkType" /\ self.type.v \in LinkTypeValues
    THEN [exc |-> "", val |-> UrlTemplate(self.type.v, self.specific_id)]
    ELSE [exc |-> "ValueError", val |-> ""]

\* LinkData.to_json_serializable: out = self.__dict__ is the object's own
\* dictionary, not a copy, so the three assignments rebind the object's
\* attributes.  The result is the object after them.
to_json_serializable(self) ==
    LET url == raw_link(self)
        a1 == [self EXCEPT !.raw_link = [cls |-> "str", s |-> url.val]]
        a2 == [a1 EXCEPT !.type = StrValue(self.type.v)]
        a3 == [a2 EXCEPT !.date = DateStr(IsoFormat(self.date.dt))]
    IN  IF url.exc # "" THEN [exc |-> url.exc, obj |-> self]
        ELSE IF self.type.cls # "LinkType" THEN [exc |-> "AttributeError", obj |-> a1]
        ELSE IF self.date.cls # "datetime" THEN [exc |-> "AttributeError", obj |-> a2]
        ELSE [exc |-> "", obj |-> a3]

(***************************************************************************)
(* get_links: the scan of a file's lines                                   *)
(***************************************************************************)

\* what a loop over lines or matches comes to: the records appended, or the
\* exception that leaves get_links and the function that raised it
NoRecords == [exc |-> "", from |-> "", recs |-> <<>>]

Raised(type, from) == [exc |-> type, from |-> from, recs |-> <<>>]

\* the loops run in order: an exception of the first part ends the scan,
\* and the records of both parts are lost to an exception of the second
ThenScan(first, rest) ==
    IF first.exc # "" THEN first
    ELSE IF rest.exc # "" THEN rest
    ELSE [rest EXCEPT !.recs = first.recs \o @]

\* links.append(LinkData(...)), or the constructor's ValueError
Appended(made) ==
    IF made.exc # "" THEN Raised(made.exc, "LinkData")
    ELSE [NoRecords EXCEPT !.recs = <<made.obj>>]

\* ScanMatch without the test of the username for a space
ScanMatchKeepSpaces(m, linkType, parsed, channel) ==
    IF linkType.exc # "" THEN Raised(linkType.exc, "LinkType")
    ELSE IF parsed.exc = "ValueError" THEN NoRecords
    ELSE IF parsed.exc # "" THEN Raised(parsed.exc, "parse_line")
    ELSE Appended(LinkData(m.g0, linkType.val, m.g4, parsed.user, channel,
                           parsed.message, DateTimeObj(parsed.date)))

\* the body of "for match in linkRegex.finditer(line)" for the match m,
\* with linkType = LinkType(m.group(3)) and parsed = parse_line(line, fileDate):
\* only ValueError is caught (continue); a username that holds a space is
\* skipped (continue); else the LinkData is appended
ScanMatch(m, linkType, parsed, channel) ==
    IF linkType.exc # "" THEN Raised(linkType.exc, "LinkType")
    ELSE IF parsed.exc = "ValueError" THEN NoRecords
    ELSE IF parsed.exc # "" THEN Raised(parsed.exc, "parse_line")
    ELSE IF CountChar(parsed.user, " ") # 0 THEN NoRecords
    ELSE Appended(LinkData(m.g0, linkType.val, m.g4, parsed.user, channel,
                           parsed.message, DateTimeObj(parsed.date)))

\* "for match in linkRegex.finditer(line)" over the matches ms
RECURSIVE ScanMatches(_, _, _, _)
ScanMatches(ms, line, channel, fileDate) ==
    IF ms = <<>> THEN NoRecords
    ELSE ThenScan(ScanMatch(Head(ms), LinkType(Head(ms).g3),
                            parse_line(line, fileDate), channel),
                  ScanMatches(Tail(ms), line, channel, fileDate))

\* one iteration of "for line in lines": a comment line is skipped
ScanLine(line, channel, fileDate) ==
    IF StartsWithAt(line, "#", 0) THEN NoRecords
    ELSE ScanMatches(FindIter(line, 0), line, channel, fileDate)

\* "for line in lines": the records of every line, in order, up to the first
\* exception that is not caught
RECURSIVE ScanLines(_, _, _)
ScanLines(ls, channel, fileDate) ==
    IF ls = <<>> THEN NoRecords
    ELSE ThenScan(ScanLine(Head(ls), channel, fileDate),
                  ScanLines(Tail(ls), channel, fileDate))

(***************************************************************************)
(* filter_and_format_links                                                 *)
(***************************************************************************)

\* the four "continue" tests of the filtering loop
IsFilteredLink(link) ==
    \/ link.specific_id = "a" /\ link.type = EnumMember("imgur.com")
    \/ link.specific_id = "gallery" /\ link.type = EnumMember("imgur.com")
    \/ link.specific_id = "upload" /\ link.type = EnumMember("imgur.com")
    \/ link.specific_id = "thumb" /\ link.type = EnumMember("gyazo.com")

\* FormatLink as link.message = link.message[:-1], a newline chopped unseen
FormatLinkChop(link) ==
    [link EXCEPT !.message = Slice(link.message, 0, Len(link.message) - 1)]

\* link.message = link.message.replace('\n', '')
FormatLink(link) == [link EXCEPT !.message = RemoveChar(link.message, "\n")]

\* newLinks: the references, in order, of the objects that are kept.  refs is
\* a list of references (indices) into the object store h.
RECURSIVE KeptRefs(_, _)
KeptRefs(refs, h) ==
    IF refs = <<>> THEN <<>>
    ELSE (IF IsFilteredLink(h[Head(refs)]) THEN <<>> ELSE <<Head(refs)>>)
         \o KeptRefs(Tail(refs), h)

\* the object store after the loop: every kept object had its message
\* rebound (in place); a skipped object is left as it was
FormattedHeap(refs, h) ==
    [o \in DOMAIN h |->
        IF (\E i \in DOMAIN refs : refs[i] = o) /\ ~IsFilteredLink(h[o])
        THEN FormatLink(h[o]) ELSE h[o]]

(***************************************************************************)
(* save_links_db: the images table                                         *)
(***************************************************************************)

\* the tuple executemany binds for one link (the ID column is the table's)
DbRow(link) ==
    [Specific_ID |-> link.specific_id,
     Link |-> link.link,
     Link_Type |-> link.type.v,
     Raw_Link |-> raw_link(link).val,
     Date_Posted |-> IsoFormat(link.date.dt),
     User_Posted |-> link.user,
     Channel_Posted |-> link.channel,
     Message_Text |-> RemoveChar(RemoveChar(link.message, "\n"), "\r")]

\* the columns of the index UNIQUE_ENTRIES_IN_IMAGES
NaturalKey(row) ==
    <<row.Specific_ID, row.Link_Type, row.Date_Posted, row.User_Posted,
      row.Channel_Posted, row.Message_Text>>

\* CREATE TABLE IF NOT EXISTS on a file with no table yet
EmptyTable == [rows |-> {}, seq |-> 0]

\* InsertOrReplace as a plain INSERT into a table with no unique index
InsertOnly(table, row) ==
    [rows |-> table.rows
              \cup {[ID |-> table.seq + 1, Specific_ID |-> row.Specific_ID,
                     Link |-> row.Link, Link_Type |-> row.Link_Type,
                     Raw_Link |-> row.Raw_Link, Date_Posted |-> row.Date_Posted,
                     User_Posted |-> row.User_Posted,
                     Channel_Posted |-> row.Channel_Posted,
                     Message_Text |-> row.Message_Text]},
     seq |-> table.seq + 1]

\* INSERT OR REPLACE of one row: the row that holds the same natural key is
\* deleted, and the new row takes the next AUTOINCREMENT id
InsertOrReplace(table, row) ==
    [rows |-> {r \in table.rows : NaturalKey(r) # NaturalKey(row)}
              \cup {[ID |-> table.seq + 1, Specific_ID |-> row.Specific_ID,
                     Link |-> row.Link, Link_Type |-> row.Link_Type,
                     Raw_Link |-> row.Raw_Link, Date_Posted |-> row.Date_Posted,
                     User_Posted |-> row.User_Posted,
                     Channel_Posted |-> row.Channel_Posted,
                     Message_Text |-> row.Message_Text]},
     seq |-> table.seq + 1]

\* cur.executemany: the statement once per tuple, in order
RECURSIVE ExecuteMany(_, _)
ExecuteMany(table, rows) ==
    IF rows = <<>> THEN table
    ELSE ExecuteMany(InsertOrReplace(table, Head(rows)), Tail(rows))

\* the exception the list comprehension of executemany's argument raises on
\* the object: link.type.value, link.raw_link() and link.date.isoformat()
DbRowError(link) ==
    IF link.type.cls # "LinkType" THEN "AttributeError"
    ELSE IF raw_link(link).exc # "" THEN raw_link(link).exc
    ELSE IF link.date.cls # "datetime" THEN "AttributeError"
    ELSE ""

\* save_links_db on the objects objs: the table after the commit and the
\* value returned (cursor.rowcount)
save_links_db(objs, table) ==
    [table |-> ExecuteMany(table, [i \in DOMAIN objs |-> DbRow(objs[i])]),
     rowcount |-> Len(objs)]

(***************************************************************************)
(* save_links_json: the document                                           *)
(***************************************************************************)

\* output_obj without its 'created' stamp (datetime.now(), read by nothing)
OutputObj(objs, channels) ==
    [total |-> Len(objs), channels |-> channels, links |-> objs]

NoDocument == [total |-> -1, channels |-> <<>>, links |-> <<>>]

\* the index of the first link whose to_json_serializable raises, 0 for none
FirstJsonFailure(refs, h) ==
    LET bad == {i \in DOMAIN refs : to_json_serializable(h[refs[i]]).exc # ""}
    IN  IF bad = {} THEN 0 ELSE CHOOSE i \in bad : \A j \in bad : i <= j

\* the object store after [link.to_json_serializable() for link in links]:
\* the comprehension stops at the first exception
JsonHeap(refs, h) ==
    LET f == FirstJsonFailure(refs, h)
    IN  [o \in DOMAIN h |->
            IF \E i \in DOMAIN refs : refs[i] = o /\ (f = 0 \/ i <= f)
            THEN to_json_serializable(h[o]).obj ELSE h[o]]

\* the exception of that list comprehension, "" when there is none
JsonError(refs, h) ==
    LET f == FirstJsonFailure(refs, h)
    IN  IF f = 0 THEN "" ELSE to_json_serializable(h[refs[f]]).exc

(***************************************************************************)
(* The inputs: what the file system holds and what the caller passes.      *)
(***************************************************************************)

\* the most files a channel's directory holds
MaxFiles == 2

\* the most lines a log file holds
MaxLines == 2

\* the most objects the filter is applied to, and a write batch holds
MaxBatch == 2

\* the most writes to one database
MaxWrites == 2

\* the most answers typed at the prompt
MaxAnswers == 3

\* the names glob finds in a channel's directory: two log files, a log file
\* of an impossible date, and a file that is no log file
FileNames ==
    {"chan-2021-05-26.log", "chan-2020-02-29.log", "chan-2021-02-29.log",
     "notes.txt"}

\* os.path.join(logs_dir, "Twitch", "Channels", channel)
FilesDir(channel) == "/logs/Twitch/Channels/" \o channel

\* lines as chatterino writes them (two spaces after the time; one before a
\* display name), and lines it garbles
SampleLines ==
    {"[12:30:45]  someuser: see https://imgur.com/abc123.jpg\n",
     "[12:30:45]  someuser: imgur.com/gallery/x i.gyazo.com/thumb/1/y.jpg\n",
     "[23:59:59] $$ realuser: i.nuuls.com/q-1.png\n",
     "[23:59:59] $$$: imgur.com/abc\n",
     "[ab:cd:ef]  someuser: imgur.com/abc\n",
     "[24:00:00]  someuser: imgur.com/abc\n",
     "imgur.com/ab",
     "# imgur.com/abc\n",
     "[12:30:45]  some user joined imgur.com/x\n",
     "[00:00:00]  someuser: imgur.com/abc https://imgur.com/abc.png"}

\* the sequences over S of at most n elements
SeqsUpTo(S, n) == UNION {[1..k -> S] : k \in 0..n}

\* the sequences over S of at most n elements, none twice
DistinctSeqsUpTo(S, n) ==
    {q \in SeqsUpTo(S, n) : \A i, j \in DOMAIN q : i # j => q[i] # q[j]}

\* choices=['pretty-json', 'json', 'sql'] of --format
FormatChoices == {"pretty-json", "json", "sql"}

\* the formats a caller may pass: the three choices, one in capitals, and
\* one that is none of them
Formats == FormatChoices \cup {"SQL", "xml"}

(***************************************************************************)
(* The state.                                                              *)
(***************************************************************************)

VARIABLES
    pc,         \* where the run is
    args,       \* main's args: the Namespace, then verify_args' dict
    all_files,  \* get_all_links: the files not yet read
    cur,        \* get_links: channel and fileDate of the file being read
    lines,      \* get_links: lines
    heap,       \* the LinkData objects, in the order of their creation
    links,      \* the list links: references into heap
    created,    \* history: each object as LinkData.__init__ left it
    origin,     \* history: the file and line each object was made from
    handles,    \* the open file handles and database connections
    db,         \* the images table of the output database
    out_file,   \* the JSON document on disk
    exc,        \* the uncaught exception, and the function that raised it
    exit_code,  \* the status the process ends with, -1 while it runs
    nlinks,     \* main: len(links), where only the length matters
    answers,    \* main: what was typed at the prompt, in order
    saved,      \* main: the calls of save_links, each with what it returned
    batch,      \* history: the objects of the last write
    prevBatch,  \* history: the objects of the write before it
    rowsBefore, \* history: the table's row count before the last write
    writes,     \* history: the number of writes so far
    firstPass   \* history: the filter's first result

vars ==
    <<pc, args, all_files, cur, lines, heap, links, created, origin, handles,
      db, out_file, exc, exit_code, nlinks, answers, saved, batch, prevBatch,
      rowsBefore, writes, firstPass>>

\* the variables main's prompt and the repeated writes use
mainVars == <<nlinks, answers, saved>>

histVars == <<batch, prevBatch, rowsBefore, writes, firstPass>>

NoFile == [path |-> "", channel |-> "", date |-> NoDate]

NoException == [type |-> "", from |-> ""]

\* before main is called: nothing is read, opened or written
NothingDone ==
    /\ cur = NoFile
    /\ lines = <<>>
    /\ origin = <<>>
    /\ handles = {}
    /\ db = EmptyTable
    /\ out_file = NoDocument
    /\ exc = NoException
    /\ exit_code = -1
    /\ nlinks = 0
    /\ answers = <<>>
    /\ saved = <<>>
    /\ batch = <<>>
    /\ prevBatch = <<>>
    /\ rowsBefore = 0
    /\ writes = 0
    /\ firstPass = [links |-> <<>>, heap |-> <<>>]

\* the state every run starts from: no LinkData object exists
Fresh ==
    /\ NothingDone
    /\ all_files = <<>>
    /\ heap = <<>>
    /\ links = <<>>
    /\ created = <<>>

\* an uncaught exception: the interpreter prints it and exits with status 1
Raise(type, from) ==
    /\ pc' = "raised"
    /\ exc' = [type |-> type, from |-> from]
    /\ exit_code' = 1


(***************************************************************************)
(* The run of main on logs of fewer than PromptThreshold links.            *)
(***************************************************************************)

\* "if len(links) >= 1000" of main
PromptThreshold == 1000

\* [i.lower() for i in args.channels]
LowerAll(channels) == [i \in DOMAIN channels |-> Lower(channels[i])]

\* the Namespace main is called with.  The model passes one channel.
ArgsSpace ==
    [channels : {<<"Chan">>}, skip_prompt : BOOLEAN, file_format : Formats,
     logs_dir_ok : BOOLEAN]

\* main is called with the logs directory there or not, and with a format
\* of each kind: one to lower-case, one of the json writer, one of neither.
\* These logs hold fewer than PromptThreshold links, so skip_prompt is
\* never read and stays unset.
Init ==
    /\ Fresh
    /\ pc = "main"
    /\ args \in {a \in ArgsSpace :
                    ~a.skip_prompt /\ a.file_format \in {"SQL", "pretty-json", "xml"}}

\* verify_args: the logs directory is checked, channels and file_format are
\* lower-cased; file_format is checked against nothing
VerifyArgs ==
    /\ pc = "main"
    /\ IF ~args.logs_dir_ok
       THEN /\ Raise("FileNotFoundError", "verify_args")
            /\ UNCHANGED args
       ELSE /\ args' = [args EXCEPT !.channels = LowerAll(@),
                                    !.file_format = Lower(@)]
            /\ pc' = "get_all_links"
            /\ UNCHANGED <<exc, exit_code>>
    /\ UNCHANGED <<all_files, cur, lines, heap, links, created, origin, handles,
                   db, out_file, mainVars, histVars>>

\* get_all_files: glob lists the channel's directory
GetAllFiles ==
    /\ pc = "get_all_links"
    /\ \E names \in DistinctSeqsUpTo(FileNames, MaxFiles) :
          all_files' = [i \in DOMAIN names |->
                           FilesDir(Head(args.channels)) \o "/" \o names[i]]
    /\ pc' = "next_file"
    /\ UNCHANGED <<args, cur, lines, heap, links, created, origin, handles, db,
                   out_file, exc, exit_code, mainVars, histVars>>

\* get_links, to the opening of the file: get_logfile_info's ValueError is
\* caught neither here nor in get_all_links nor in main
GetLinksOpen ==
    /\ pc = "next_file"
    /\ all_files # <<>>
    /\ LET info == get_logfile_info(Head(all_files))
       IN  IF info.exc # ""
           THEN /\ Raise(info.exc, "get_logfile_info")
                /\ UNCHANGED <<cur, handles>>
           ELSE /\ cur' = [path |-> Head(all_files), channel |-> info.channel,
                           date |-> info.date]
                /\ handles' = handles \cup {"logfile"}
                /\ pc' = "readlines"
                /\ UNCHANGED <<exc, exit_code>>
    /\ UNCHANGED <<args, all_files, lines, heap, links, created, origin, db,
                   out_file, mainVars, histVars>>

\* get_links, the with block: f.readlines(), or no lines where the file does
\* not decode; the block's exit closes the file either way
GetLinksRead ==
    /\ pc = "readlines"
    /\ \E decodes \in BOOLEAN, content \in SeqsUpTo(SampleLines, MaxLines) :
          lines' = IF decodes THEN content ELSE <<>>
    /\ handles' = handles \ {"logfile"}
    /\ pc' = "scan"
    /\ UNCHANGED <<args, all_files, cur, heap, links, created, origin, db,
                   out_file, exc, exit_code, mainVars, histVars>>

\* history: the line each record of ScanLines came from
RECURSIVE OriginsOf(_, _, _)
OriginsOf(ls, channel, fileDate) ==
    IF ls = <<>> THEN <<>>
    ELSE [i \in 1..Len(ScanLine(Head(ls), channel, fileDate).recs) |-> Head(ls)]
         \o OriginsOf(Tail(ls), channel, fileDate)

\* the state after get_links returned the records r.recs, made from the
\* lines from, and get_all_links extended links by them
ExtendLinks(r, from) ==
    /\ heap' = heap \o r.recs
    /\ created' = created \o r.recs
    /\ origin' = origin \o [i \in DOMAIN from |->
                               [path |-> cur.path, line |-> from[i]]]
    /\ links' = links \o [i \in DOMAIN r.recs |-> Len(heap) + i]
    /\ all_files' = Tail(all_files)
    /\ cur' = NoFile
    /\ lines' = <<>>
    /\ pc' = "next_file"
    /\ UNCHANGED <<exc, exit_code>>

\* the state after get_links raised what the scan r raised
ScanRaised(r) ==
    /\ Raise(r.exc, r.from)
    /\ UNCHANGED <<all_files, cur, lines, heap, links, created, origin>>

\* get_links, the loop over the lines, and links.extend of get_all_links
ScanOutcome(r, from) == IF r.exc # "" THEN ScanRaised(r) ELSE ExtendLinks(r, from)

GetLinksScan ==
    /\ pc = "scan"
    /\ ScanOutcome(ScanLines(lines, cur.channel, cur.date),
                   OriginsOf(lines, cur.channel, cur.date))
    /\ UNCHANGED <<args, handles, db, out_file, mainVars, histVars>>

\* get_all_links, after the last file: return filter_and_format_links(links)
FilterAndFormat ==
    /\ pc = "next_file"
    /\ all_files = <<>>
    /\ links' = KeptRefs(links, heap)
    /\ heap' = FormattedHeap(links, heap)
    /\ pc' = "confirm"
    /\ UNCHANGED <<args, all_files, cur, lines, created, origin, handles, db,
                   out_file, exc, exit_code, mainVars, histVars>>

\* main: "if len(links) >= 1000" and the loop's first test
MainConfirm ==
    /\ pc = "confirm"
    /\ pc' = IF Len(links) >= PromptThreshold /\ ~args.skip_prompt
             THEN "prompt" ELSE "save_links"
    /\ UNCHANGED <<args, all_files, cur, lines, heap, links, created, origin,
                   handles, db, out_file, exc, exit_code, mainVars, histVars>>

\* the objects the list links refers to
Objects(refs, h) == [i \in DOMAIN refs |-> h[refs[i]]]

\* the first exception executemany's argument raises, "" for none
DbError(objs) ==
    LET bad == {i \in DOMAIN objs : DbRowError(objs[i]) # ""}
    IN  IF bad = {} THEN ""
        ELSE DbRowError(objs[CHOOSE i \in bad : \A j \in bad : i <= j])

\* the handles after a function that opened h returns without closing it:
\* whether h is closed by then is the garbage collector's business
Unclosed(h) == {handles \cup {h}, handles}

\* save_links, file_format == "sql": save_links_db.  The connection is
\* never closed by the code.  A database error (sqlite3.Error) leaves the
\* function before the commit, with the connection in the traceback's frame.
SaveLinksDb ==
    /\ pc = "save_links"
    /\ args.file_format = "sql"
    /\ LET objs == Objects(links, heap)
           done == save_links_db(objs, db)
       IN  \E fails \in BOOLEAN :
              IF DbError(objs) # "" \/ fails
              THEN /\ Raise(IF DbError(objs) # "" THEN DbError(objs)
                            ELSE "sqlite3.Error", "save_links_db")
                   /\ handles' = handles \cup {"conn"}
                   /\ UNCHANGED <<db, saved>>
              ELSE /\ db' = done.table
                   /\ saved' = Append(saved, [by |-> "save_links_db",
                                              ret |-> done.rowcount])
                   /\ handles' \in Unclosed("conn")
                   /\ pc' = "done"
                   /\ exit_code' = 0
                   /\ UNCHANGED exc
    /\ UNCHANGED <<args, all_files, cur, lines, heap, links, created, origin,
                   out_file, nlinks, answers, histVars>>

\* the file after open(out_file, "w") and a dump that did not finish
TruncatedDocument == [total |-> -1, channels |-> <<"?">>, links |-> <<>>]

\* save_links, "json" in file_format: save_links_json.  The objects are
\* serialized (and rebound) before the file is opened; the file is never
\* closed by the code.  An OSError comes from open (nothing opened, nothing
\* written) or from the dump (the file opened and truncated).
SaveLinksJson ==
    /\ pc = "save_links"
    /\ args.file_format # "sql"
    /\ FindStr(args.file_format, "json") >= 0
    /\ heap' = JsonHeap(links, heap)
    /\ IF JsonError(links, heap) # ""
       THEN /\ Raise(JsonError(links, heap), "to_json_serializable")
            /\ UNCHANGED <<out_file, handles, saved>>
       ELSE \E outcome \in {"written", "open fails", "dump fails"} :
              CASE outcome = "written" ->
                     /\ out_file' = OutputObj(Objects(links, heap'), args.channels)
                     /\ saved' = Append(saved, [by |-> "save_links_json",
                                                ret |-> Len(links)])
                     /\ handles' \in Unclosed("outfile")
                     /\ pc' = "done"
                     /\ exit_code' = 0
                     /\ UNCHANGED exc
                [] outcome = "open fails" ->
                     /\ Raise("OSError", "save_links_json")
                     /\ UNCHANGED <<out_file, handles, saved>>
                [] outcome = "dump fails" ->
                     /\ Raise("OSError", "save_links_json")
                     /\ out_file' = TruncatedDocument
                     /\ handles' = handles \cup {"outfile"}
                     /\ UNCHANGED saved
    /\ UNCHANGED <<args, all_files, cur, lines, links, created, origin, db,
                   nlinks, answers, histVars>>

\* save_links, any other file_format: neither branch is taken and the
\* function returns None; main logs "Saved 0" and ends
SaveLinksNone ==
    /\ pc = "save_links"
    /\ args.file_format # "sql"
    /\ FindStr(args.file_format, "json") < 0
    /\ saved' = Append(saved, [by |-> "", ret |-> -1])
    /\ pc' = "done"
    /\ exit_code' = 0
    /\ UNCHANGED <<args, all_files, cur, lines, heap, links, created, origin,
                   handles, db, out_file, exc, nlinks, answers, histVars>>

Next ==
    \/ VerifyArgs
    \/ GetAllFiles
    \/ GetLinksOpen
    \/ GetLinksRead
    \/ GetLinksScan
    \/ FilterAndFormat
    \/ MainConfirm
    \/ SaveLinksDb
    \/ SaveLinksJson
    \/ SaveLinksNone

Spec == Init /\ [][Next]_vars

(***************************************************************************)
(* get_links on one file.                                                  *)
(***************************************************************************)

\* verify_args' dict for the channel chan
VerifiedArgs ==
    [channels |-> <<"chan">>, skip_prompt |-> FALSE, file_format |-> "sql",
     logs_dir_ok |-> TRUE]

InitGetLinks ==
    /\ NothingDone
    /\ pc = "next_file"
    /\ args = VerifiedArgs
    /\ heap = <<>>
    /\ links = <<>>
    /\ created = <<>>
    /\ \E name \in FileNames :
          all_files = <<FilesDir("chan") \o "/" \o name>>

NextGetLinks ==
    \/ GetLinksOpen
    \/ GetLinksRead
    \/ GetLinksScan

SpecGetLinks == InitGetLinks /\ [][NextGetLinks]_vars

(***************************************************************************)
(* filter_and_format_links, applied to its own result.                     *)
(***************************************************************************)

\* the elements of a sequence
Range(q) == {q[i] : i \in DOMAIN q}

\* the date of the log file the records below come from
SampleDate == [year |-> 2021, month |-> 5, day |-> 26]

\* the objects get_links makes of the line
RecordsOf(line) == ScanLine(line, "chan", SampleDate).recs

\* records get_links hands to the filter: every (type, id) pair the filter
\* names, the same ids under the other type, and an image
FilterObjects ==
    UNION {Range(RecordsOf(l)) :
             l \in {"[12:30:45]  someuser: imgur.com/a/x gyazo.com/a\n",
                    "[12:30:45]  someuser: imgur.com/gallery/x imgur.com/upload\n",
                    "[12:30:45]  someuser: i.gyazo.com/thumb/1/y.jpg imgur.com/thumb",
                    "[12:30:45]  someuser: see https://imgur.com/abc123.jpg\n"}}

InitFilter ==
    /\ NothingDone
    /\ pc = "filter"
    /\ args = VerifiedArgs
    /\ all_files = <<>>
    /\ heap \in SeqsUpTo(FilterObjects, MaxBatch)
    /\ links = [i \in DOMAIN heap |-> i]
    /\ created = heap

\* links = filter_and_format_links(links)
FilterOnce ==
    /\ pc = "filter"
    /\ links' = KeptRefs(links, heap)
    /\ heap' = FormattedHeap(links, heap)
    /\ firstPass' = [links |-> links', heap |-> heap']
    /\ pc' = "filter_again"
    /\ UNCHANGED <<args, all_files, cur, lines, created, origin, handles, db,
                   out_file, exc, exit_code, mainVars, batch, prevBatch,
                   rowsBefore, writes>>

\* links = filter_and_format_links(links), on the first result
FilterTwice ==
    /\ pc = "filter_again"
    /\ links' = KeptRefs(links, heap)
    /\ heap' = FormattedHeap(links, heap)
    /\ pc' = "filtered"
    /\ UNCHANGED <<args, all_files, cur, lines, created, origin, handles, db,
                   out_file, exc, exit_code, mainVars, histVars>>

NextFilter ==
    \/ FilterOnce
    \/ FilterTwice

SpecFilter == InitFilter /\ [][NextFilter]_vars

(***************************************************************************)
(* save_links_db, run after run on one output database.                    *)
(***************************************************************************)

\* each record as filter_and_format_links hands it on
Formatted(objs) == {FormatLink(o) : o \in {x \in objs : ~IsFilteredLink(x)}}

\* records the writer is handed: two of one line that differ in the matched
\* text alone, and one of another host
DbObjects ==
    Formatted(UNION {Range(RecordsOf(l)) :
                       l \in {"[00:00:00]  someuser: imgur.com/abc https://imgur.com/abc.png",
                              "[23:59:59] $$ realuser: i.gyazo.com/q-1.png\n"}})

InitDb ==
    /\ Fresh
    /\ pc = "save_links"
    /\ args = VerifiedArgs

\* one run's save_links_db(links, args) on the database the runs before it
\* left
WriteDb ==
    /\ pc = "save_links"
    /\ writes < MaxWrites
    /\ \E objs \in SeqsUpTo(DbObjects, MaxBatch) :
          /\ db' = save_links_db(objs, db).table
          /\ saved' = Append(saved, [by |-> "save_links_db",
                                     ret |-> save_links_db(objs, db).rowcount])
          /\ batch' = objs
    /\ prevBatch' = batch
    /\ rowsBefore' = Cardinality(db.rows)
    /\ writes' = writes + 1
    /\ UNCHANGED <<pc, args, all_files, cur, lines, heap, links, created, origin,
                   handles, out_file, exc, exit_code, nlinks, answers, firstPass>>

NextDb == WriteDb

SpecDb == InitDb /\ [][NextDb]_vars

(***************************************************************************)
(* main and its confirmation prompt.  Only len(links) is read of links, so *)
(* get_all_links is its result's length.                                   *)
(***************************************************************************)

\* len(links) below, at and above the threshold
LinkCounts == {0, PromptThreshold - 1, PromptThreshold, PromptThreshold + 500}

\* what the user types
Answers == {"y", "YES", "", "n", "N", "No", "maybe", "nope"}

\* answer.lower() in ["yes", "y", ""]
IsAffirmative(answer) == Lower(answer) \in {"yes", "y", ""}

\* IsNegative without the lower(): answer in ["n", "no"]
IsNegativeCaseSensitive(answer) == answer \in {"n", "no"}

\* answer.lower() in ["n", "no"]
IsNegative(answer) == Lower(answer) \in {"n", "no"}

\* the variable answer of main
CurrentAnswer ==
    IF answers = <<>> THEN "some random dummy data" ELSE answers[Len(answers)]

NoArgs ==
    [channels |-> <<>>, skip_prompt |-> FALSE, file_format |-> "",
     logs_dir_ok |-> FALSE]

InitMain ==
    /\ Fresh
    /\ pc = "start"
    /\ args = NoArgs

\* the unchanged rest of the state of a step of main
MainFrame ==
    UNCHANGED <<all_files, cur, lines, heap, links, created, origin, handles,
                db, out_file, histVars>>

\* __main__: parser.parse_args(), then main(args).  A --format outside
\* choices ends the process in parse_args with status 2.
ParseArgs ==
    /\ pc = "start"
    /\ \E a \in ArgsSpace :
          IF a.file_format \in FormatChoices
          THEN /\ args' = a
               /\ pc' = "main"
               /\ UNCHANGED exit_code
          ELSE /\ pc' = "exited"
               /\ exit_code' = 2
               /\ UNCHANGED args
    /\ UNCHANGED <<exc, mainVars>>
    /\ MainFrame

\* main(args) called with a Namespace no parser checked
CallMain ==
    /\ pc = "start"
    /\ args' \in ArgsSpace
    /\ pc' = "main"
    /\ UNCHANGED <<exc, exit_code, mainVars>>
    /\ MainFrame

\* args = verify_args(args)
MainVerifyArgs ==
    /\ pc = "main"
    /\ IF ~args.logs_dir_ok
       THEN /\ Raise("FileNotFoundError", "verify_args")
            /\ UNCHANGED args
       ELSE /\ args' = [args EXCEPT !.channels = LowerAll(@),
                                    !.file_format = Lower(@)]
            /\ pc' = "get_all_links"
            /\ UNCHANGED <<exc, exit_code>>
    /\ UNCHANGED mainVars
    /\ MainFrame

\* links = get_all_links(...): some number of links, or the exception of a
\* file or a line
MainGetAllLinks ==
    /\ pc = "get_all_links"
    /\ \/ /\ nlinks' \in LinkCounts
          /\ pc' = "confirm"
          /\ UNCHANGED <<exc, exit_code>>
       \/ /\ \E f \in {"get_logfile_info", "parse_line"} :
                Raise(IF f = "parse_line" THEN "IndexError" ELSE "ValueError", f)
          /\ UNCHANGED nlinks
    /\ UNCHANGED <<args, answers, saved>>
    /\ MainFrame

\* "if len(links) >= 1000" and the test of the while loop
MainLoopTest ==
    /\ pc = "confirm"
    /\ pc' = IF /\ nlinks >= PromptThreshold
                /\ ~args.skip_prompt
                /\ ~IsAffirmative(CurrentAnswer)
             THEN "prompt" ELSE "save_links"
    /\ UNCHANGED <<args, exc, exit_code, mainVars>>
    /\ MainFrame

\* the body of the while loop: answer = input(...); a negative answer is
\* sys.exit(0); the end of the input is input's EOFError
MainPrompt ==
    /\ pc = "prompt"
    /\ Len(answers) < MaxAnswers
    /\ \/ \E answer \in Answers :
             /\ answers' = Append(answers, answer)
             /\ IF IsNegative(answer)
                THEN /\ pc' = "exited"
                     /\ exit_code' = 0
                ELSE /\ pc' = "confirm"
                     /\ UNCHANGED exit_code
             /\ UNCHANGED exc
       \/ /\ Raise("EOFError", "input")
          /\ UNCHANGED answers
    /\ UNCHANGED <<args, nlinks, saved>>
    /\ MainFrame

\* number_saved = save_links(links, args), and the end of main: the writer
\* returns len(links); an args['file_format'] of neither branch returns None
MainSaveLinks ==
    /\ pc = "save_links"
    /\ saved' = Append(saved,
                   IF args.file_format = "sql"
                   THEN [by |-> "save_links_db", ret |-> nlinks]
                   ELSE IF FindStr(args.file_format, "json") >= 0
                   THEN [by |-> "save_links_json", ret |-> nlinks]
                   ELSE [by |-> "", ret |-> -1])
    /\ pc' = "done"
    /\ exit_code' = 0
    /\ UNCHANGED <<args, exc, nlinks, answers>>
    /\ MainFrame

NextMain ==
    \/ ParseArgs
    \/ CallMain
    \/ MainVerifyArgs
    \/ MainGetAllLinks
    \/ MainLoopTest
    \/ MainPrompt
    \/ MainSaveLinks

SpecMain == InitMain /\ [][NextMain]_vars

(***************************************************************************)
(* The claims.                                                             *)
(***************************************************************************)

\* C1: with len(links) >= 1000 and skip_prompt unset the user is prompted
\* before any write; after a negative answer ("n" or "no", any case)
\* save_links is never called; and an answer that is neither affirmative
\* nor negative leads to no write: every write follows an affirmative
\* answer ("yes", "y" or the empty answer, any case).
C1_NegativeAnswerNeverWrites ==
    /\ (\E i \in DOMAIN answers :
           answers[i] \in {"n", "N", "no", "No", "nO", "NO"}) => saved = <<>>
    /\ pc = "prompt" => saved = <<>>
    /\ (saved # <<>> /\ nlinks >= 1000 /\ ~args.skip_prompt) =>
          /\ answers # <<>>
          /\ answers[Len(answers)] \in {"", "y", "Y", "yes", "YES"}
          /\ \A i \in 1..(Len(answers) - 1) : answers[i] \in {"maybe", "nope"}

\* C1's case: 1500 links, an answer that is neither, then a negative answer
\* in capitals, and the process has ended
C1_Witness ==
    /\ pc = "exited"
    /\ nlinks = 1500
    /\ ~args.skip_prompt
    /\ Len(answers) = 2
    /\ answers[1] = "maybe"
    /\ answers[2] = "No"
    /\ saved = <<>>

\* C2: a file whose name get_logfile_info cannot parse does not end the
\* run: get_all_links skips it and the run goes on to the filter and the
\* write.
C2_BadFilenameIsSkipped == pc = "raised" => exc.from # "get_logfile_info"

\* C3: a line whose metadata parse fails, in whatever way, is skipped:
\* get_links does not raise on it.
C3_BadLineIsSkipped == pc = "raised" => exc.from # "parse_line"

\* C4: main, through verify_args, aborts on a file_format that is none of
\* the three supported ones before any file is enumerated or read, so no
\* such run gets as far as get_all_links or save_links.
C4_UnknownFormatAborts ==
    Lower(args.file_format) \notin {"pretty-json", "json", "sql"} =>
        pc \in {"start", "main", "raised", "exited"}

\* C5: after any sequence of save_links_db calls no two rows of images share
\* the natural key, and a write of the collection the write before it wrote
\* leaves the row count as it was.
C5_NaturalKeyUnique ==
    /\ \A r1, r2 \in db.rows :
          (/\ r1.Specific_ID = r2.Specific_ID
           /\ r1.Link_Type = r2.Link_Type
           /\ r1.Date_Posted = r2.Date_Posted
           /\ r1.User_Posted = r2.User_Posted
           /\ r1.Channel_Posted = r2.Channel_Posted
           /\ r1.Message_Text = r2.Message_Text) => r1 = r2
    /\ (writes >= 2 /\ batch = prevBatch) => Cardinality(db.rows) = rowsBefore

\* C5's case: a collection of two records of one natural key, written twice
C5_Witness ==
    /\ writes = 2
    /\ batch = prevBatch
    /\ Len(batch) = 2
    /\ batch[1] # batch[2]
    /\ Cardinality(db.rows) = 1

\* C6: a negative answer at the prompt ends the process with a status other
\* than 0, the status of a run that completed its write.
C6_NegativeAnswerExitsNonZero ==
    (/\ pc = "exited"
     /\ answers # <<>>
     /\ answers[Len(answers)] \in {"n", "N", "no", "No", "nO", "NO"}) => exit_code # 0

\* C7: the filter applied to its own result returns the same records in the
\* same order with the same field values, and no record it returns is
\* (Imgur, "a"), (Imgur, "gallery"), (Imgur, "upload") or (Gyazo, "thumb").
C7_FilterIdempotent ==
    /\ pc = "filtered" => (links = firstPass.links /\ heap = firstPass.heap)
    /\ pc \in {"filter_again", "filtered"} =>
          \A i \in DOMAIN links :
             <<heap[links[i]].type.v, heap[links[i]].specific_id>> \notin
                {<<"imgur.com", "a">>, <<"imgur.com", "gallery">>,
                 <<"imgur.com", "upload">>, <<"gyazo.com", "thumb">>}

\* C7's case: the filter ran twice on two records, dropped one and stripped
\* the newline of the other's message
C7_Witness ==
    /\ pc = "filtered"
    /\ Len(heap) = 2
    /\ Len(links) = 1
    /\ heap[links[1]] # created[links[1]]

\* C8: after a write every written record is as it was constructed: its
\* type is a LinkType member, its date a datetime, and raw_link() returns
\* the URL it returned before the write.
C8_RecordsUnchangedByWrite ==
    (pc = "done" /\ saved # <<>>) =>
        \A i \in DOMAIN links :
           /\ heap[links[i]].type.cls = "LinkType"
           /\ heap[links[i]].date.cls = "datetime"
           /\ raw_link(heap[links[i]]) = raw_link(created[links[i]])

\* C9: every handle an operation opens is closed by the time the operation
\* returns or raises: outside get_links' with block no handle is open.
C9_HandlesReleased == pc # "readlines" => handles = {}

\* C10: every record get_links returns is fully formed: its type is a
\* LinkType member, its date is the date of the file's name with the time
\* the line starts with, its channel is the one of the file's name, its
\* username holds no space, its link, username and message are text of the
\* line it came from, and that line is no comment.
C10_RecordsWellFormed ==
    /\ Len(origin) = Len(created)
    /\ \A o \in DOMAIN created :
          LET r == created[o]
              name == Basename(origin[o].path)
              line == origin[o].line
          IN  /\ r.type.cls = "LinkType"
              /\ r.type.v \in {"imgur.com", "gyazo.com", "nuuls.com"}
              /\ r.raw_link.cls = "method"
              /\ r.date.cls = "datetime"
              /\ name = r.channel \o "-" \o Slice(IsoFormat(r.date.dt), 0, 10) \o ".log"
              /\ r.date.dt.hour \in 0..23
              /\ r.date.dt.minute \in 0..59
              /\ r.date.dt.second \in 0..59
              /\ (/\ AllDigits(Slice(line, 1, 3)) /\ Slice(line, 3, 4) = ":"
                  /\ AllDigits(Slice(line, 4, 6)) /\ Slice(line, 6, 7) = ":"
                  /\ AllDigits(Slice(line, 7, 9)) /\ Len(line) >= 9)
                 => SliceFrom(IsoFormat(r.date.dt), 11) = Slice(line, 1, 9)
              /\ CountChar(r.user, " ") = 0
              /\ FindStr(line, r.link) >= 0
              /\ FindStr(r.link, "/" \o r.specific_id) >= 0
              /\ FindStr(line, r.user) >= 12
              /\ SliceFrom(line, Len(line) - Len(r.message)) = r.message
              /\ Slice(line, 0, 1) # "#"
              /\ heap[o] = r

\* C10's case: get_links returned the records of a file of two lines, one
\* in the layout of display names, and skipped nothing it should keep
C10_Witness ==
    /\ pc = "next_file"
    /\ all_files = <<>>
    /\ Len(created) = 2
    /\ created[1].user = "someuser"
    /\ created[2].user = "realuser"
    /\ created[2].type.v = "nuuls.com"

====
